---------------------------- MODULE Spec2Model ----------------------------
(***************************************************************************)
(* Symbolic tracing of a module tree (torch/fx/symbolic_trace.py).         *)
(*                                                                         *)
(* The model is an interpreter for Tracer.trace: the Python call stack is  *)
(* explicit (forward frames and module_call_wrapper frames), the global    *)
(* hook torch.nn.Module.__call__ is a variable, and the graph, the root's  *)
(* __dict__ and the tracer's fields are the program state.  Module trees,  *)
(* forward bodies and signatures are drawn from a small fixed universe.    *)
(***************************************************************************)
EXTENDS Integers, Sequences, FiniteSets, TLC

(* ------------------------------ bounds -------------------------------- *)
\* number of calls of Tracer.trace in one behaviour
MaxTraces == 2
\* longest pipeline root.forward(x) = stage_k(...stage_1(x))
MaxStages == 3
\* most positional parameters besides the receiver in a drawn signature
MaxPos == 2
\* most keyword-only parameters in a drawn signature
MaxKwOnly == 1

(* ------------------------- the object universe ------------------------ *)
\* Objects are named by identity strings; attribute names are separate.
PipeRoot(k) == "Pipe" \o ToString(k)
StageLeaf(i) == "Stage" \o ToString(i)
PipeRoots == { PipeRoot(k) : k \in 1..MaxStages }
PipeLen(m) == CHOOSE k \in 1..MaxStages : m = PipeRoot(k)

FixedRoots == { "Nest", "Const", "Fail", "FailDeep", "Unreg", "UnregComp",
                "Param", "BadParam", "RetConst", "RetParam", "RetBadParam",
                "SigRoot", "Deep", "Taken" }
Roots == PipeRoots \cup FixedRoots

\* m.__module__ : the Python module that defines type(m)
PyModuleOf(m) ==
    IF m \in { "Linear_a", "Linear_b", "Linear_c", "ReLU_a", "Linear_stray" }
       \/ m \in { StageLeaf(i) : i \in 1..MaxStages }
    THEN "torch.nn.modules.linear"
    ELSE IF m = "Seq" THEN "torch.nn.modules.container"
    ELSE "__main__"

\* isinstance(m, torch.nn.Sequential)
IsSequential(m) == m = "Seq"

\* m._modules.items(): the registered children <<name, object>>, in order
Children(m) ==
    IF m \in PipeRoots
    THEN [ i \in 1..PipeLen(m) |-> << "stage" \o ToString(i), StageLeaf(i) >> ]
    ELSE CASE m = "Nest"      -> << <<"block", "Block">>, <<"head", "Linear_a">> >>
           [] m = "Block"     -> << <<"lin", "Linear_b">>, <<"seq", "Seq">> >>
           [] m = "Seq"       -> << <<"0", "ReLU_a">>, <<"1", "Linear_c">> >>
           [] m = "Const"     -> << <<"lin", "Linear_a">>, <<"sub", "Holder">> >>
           [] m = "Fail"      -> << <<"lin", "Linear_a">> >>
           [] m = "FailDeep"  -> << <<"blk", "Thrower">> >>
           [] m = "Thrower"   -> << <<"lin", "Linear_a">> >>
           [] m = "Unreg"     -> << <<"lin", "Linear_a">> >>
           [] m = "Param"     -> << <<"lin", "Linear_a">> >>
           [] m = "BadParam"  -> << <<"lin", "Linear_a">> >>
           [] m = "RetConst"  -> << <<"lin", "Linear_a">> >>
           [] m = "RetBadParam" -> << <<"lin", "Linear_a">> >>
           [] m = "Deep"      -> << <<"a", "HolderA">>, <<"b", "HolderB">>,
                                    <<"lin", "Linear_a">> >>
           [] m = "HolderA"   -> << <<"inner", "HolderIn">> >>
           [] m = "Taken"     -> << <<"lin", "Linear_a">>,
                                    <<"__tensor_constant2", "Linear_b">> >>
           [] OTHER           -> << >>

\* m._parameters.items(): the registered parameters <<name, object>>, in order
Parameters(m) ==
    CASE m = "Param"    -> << <<"w", "P1">> >>
      [] m = "RetParam" -> << <<"w", "P1">> >>
      [] m = "Linear_a" -> << <<"weight", "P3">> >>
      [] m = "Taken"    -> << <<"__tensor_constant3", "P4">> >>
      [] OTHER          -> << >>

\* the tensor-valued entries of m.__dict__ before any trace, in insertion order
InitDict(m) ==
    CASE m = "Const"  -> << <<"buf", "T1">> >>
      [] m = "Holder" -> << <<"t", "T3">> >>
      [] m = "Deep"     -> << <<"r", "T6">>, <<"r2", "T6">> >>
      [] m = "HolderA"  -> << <<"own", "T7">>, <<"dup", "T6">> >>
      [] m = "HolderIn" -> << <<"deep", "T8">>, <<"own2", "T7">> >>
      [] m = "HolderB"  -> << <<"shallow", "T8">>, <<"late", "T9">> >>
      [] m = "Taken"    -> << <<"__tensor_constant1", "T10">> >>
      [] OTHER        -> << >>

\* the objects whose __dict__ the model keeps
DictOwners == Roots \cup { "Holder", "HolderA", "HolderIn", "HolderB" }

\* the contents of a tensor object: T1, T2 and T5 are distinct objects that compare
\* equal, and so are T3 and T4
TensorValue(t) == IF t \in { "T1", "T2", "T5" } THEN "ones" ELSE "zeros"

(* ------------------------------ values -------------------------------- *)
\* run-time values of the traced code
Proxy(i)     == [ k |-> "proxy",  n |-> i, id |-> "" ]
TensorObj(t) == [ k |-> "tensor", n |-> 0, id |-> t ]
ParamObj(p)  == [ k |-> "param",  n |-> 0, id |-> p ]
NoneVal      == [ k |-> "none",   n |-> 0, id |-> "" ]
\* the register that carries a returned value is empty
Unset        == [ k |-> "unset",  n |-> 0, id |-> "" ]

\* graph arguments: a reference to an earlier node of the graph, or a literal
NodeRef(i) == [ k |-> "node", n |-> i ]
NoneArg    == [ k |-> "none", n |-> 0 ]

(* --------------------------- forward bodies --------------------------- *)
\* cur := m(cur, *extra)
CallOp(m, extra) == [ op |-> "call", m |-> m, extra |-> extra ]
\* raise an error of the traced code's own
RaiseOp == [ op |-> "raise", m |-> "", extra |-> << >> ]
\* return cur
RetOp == [ op |-> "ret", m |-> "", extra |-> << >> ]
\* return v
RetValOp(v) == [ op |-> "ret", m |-> "", extra |-> << v >> ]

\* type(m).forward as a straight-line body over one register cur
Forward(m) ==
    IF m \in PipeRoots
    THEN [ i \in 1..PipeLen(m) |-> CallOp(StageLeaf(i), << >>) ] \o << RetOp >>
    ELSE CASE m = "Nest"  -> << CallOp("Block", << >>), CallOp("Linear_a", << >>), RetOp >>
           [] m = "Block" -> << CallOp("Linear_b", << >>), CallOp("Seq", << >>), RetOp >>
           [] m = "Seq"   -> << CallOp("ReLU_a", << >>), CallOp("Linear_c", << >>), RetOp >>
           [] m = "Const" -> << CallOp("Linear_a", << TensorObj("T1"), TensorObj("T2") >>),
                                CallOp("Linear_a", << TensorObj("T3"), TensorObj("T4") >>),
                                CallOp("Linear_a", << TensorObj("T2"), TensorObj("T5") >>),
                                RetOp >>
           [] m = "Fail"  -> << CallOp("Linear_a", << TensorObj("T2") >>), RaiseOp >>
           [] m = "FailDeep" -> << CallOp("Thrower", << >>), RetOp >>
           [] m = "Thrower"  -> << CallOp("Linear_a", << >>), RaiseOp >>
           [] m = "Unreg" -> << CallOp("Linear_a", << >>), CallOp("Linear_stray", << >>), RetOp >>
           [] m = "UnregComp" -> << CallOp("Block_stray", << >>), RetOp >>
           [] m = "Param" -> << CallOp("Linear_a", << ParamObj("P1"), ParamObj("P3") >>), RetOp >>
           [] m = "BadParam" -> << CallOp("Linear_a", << TensorObj("T2"), ParamObj("P2") >>), RetOp >>
           [] m = "RetConst" -> << CallOp("Linear_a", << >>), RetValOp(TensorObj("T2")) >>
           [] m = "RetParam" -> << RetValOp(ParamObj("P1")) >>
           [] m = "RetBadParam" -> << CallOp("Linear_a", << >>), RetValOp(ParamObj("P2")) >>
           [] m = "Taken" -> << CallOp("Linear_a", << TensorObj("T11"), TensorObj("T12") >>),
                                CallOp("Linear_a", << TensorObj("T13"), TensorObj("T10") >>),
                                RetOp >>
           [] m = "Deep"  -> << CallOp("Linear_a", << TensorObj("T6"), TensorObj("T7") >>),
                                CallOp("Linear_a", << TensorObj("T8"), TensorObj("T9") >>),
                                RetOp >>
           [] OTHER -> << RetOp >>

(* ----------------------------- signatures ----------------------------- *)
\* fn.__code__ of a forward: co_argcount counts the receiver
Code(npos, nkw, va, vk) ==
    [ co_argcount |-> npos + 1, co_kwonlyargcount |-> nkw,
      co_varargs |-> va, co_varkeywords |-> vk,
      co_varnames |-> << "self" >>
                      \o [ i \in 1..npos |-> "x" \o ToString(i) ]
                      \o [ i \in 1..nkw |-> "k" \o ToString(i) ]
                      \o (IF va THEN << "rest" >> ELSE << >>)
                      \o (IF vk THEN << "kw" >> ELSE << >>)
                      \o << "tmp" >> ]

\* the signatures type(root).forward may declare
CodesOf(root) ==
    IF root = "SigRoot"
    THEN { Code(np, nk, va, vk) : np \in 0..MaxPos, nk \in 0..MaxKwOnly,
                                   va \in BOOLEAN, vk \in BOOLEAN }
    ELSE { Code(1, 0, FALSE, FALSE) }


(* ------------------------ torch.nn.Module lookups --------------------- *)
Min(S) == CHOOSE x \in S : \A y \in S : x <= y

\* prefix + ('.' if prefix else '') + name
SubPrefix(prefix, name) == prefix \o (IF prefix # "" THEN "." ELSE "") \o name

\* root.named_modules(): depth-first, parents first, each object once;
\* the memo is also the list of <<qualified name, object>> yielded so far
RECURSIVE NamedModulesFrom(_, _, _)
RECURSIVE NamedModulesOver(_, _, _, _)
NamedModulesFrom(m, prefix, memo) ==
    IF \E j \in 1..Len(memo) : memo[j][2] = m
    THEN memo
    ELSE NamedModulesOver(Children(m), 1, prefix, Append(memo, << prefix, m >>))
NamedModulesOver(cs, i, prefix, memo) ==
    IF i > Len(cs)
    THEN memo
    ELSE NamedModulesOver(cs, i + 1, prefix,
            NamedModulesFrom(cs[i][2], SubPrefix(prefix, cs[i][1]), memo))
named_modules(root) == NamedModulesFrom(root, "", << >>)

\* root.named_parameters(): the parameters of every named module, each object once
RECURSIVE NamedParametersFrom(_, _, _, _)
NamedParametersFrom(nm, j, i, acc) ==
    IF j > Len(nm)
    THEN acc
    ELSE LET ps == Parameters(nm[j][2])
         IN  IF i > Len(ps)
             THEN NamedParametersFrom(nm, j + 1, 1, acc)
             ELSE NamedParametersFrom(nm, j, i + 1,
                    IF \E q \in 1..Len(acc) : acc[q][2] = ps[i][2]
                    THEN acc
                    ELSE Append(acc, << SubPrefix(nm[j][1], ps[i][1]), ps[i][2] >>))
named_parameters(root) == NamedParametersFrom(named_modules(root), 1, 1, << >>)

\* m.__dict__.items() restricted to tensor values, for dictionary state d
DictOf(d, m) == IF m \in DOMAIN d THEN d[m] ELSE << >>

\* hasattr(root, name): an instance attribute, a parameter or a child
hasattr(d, root, name) ==
    \/ \E j \in 1..Len(DictOf(d, root)) : DictOf(d, root)[j][1] = name
    \/ \E j \in 1..Len(Parameters(root)) : Parameters(root)[j][1] = name
    \/ \E j \in 1..Len(Children(root)) : Children(root)[j][1] = name

\* setattr(root, name, a) for a plain tensor a and a name that is not taken
setattr(d, root, name, a) == [ d EXCEPT ![root] = Append(@, << name, a >>) ]

(* --------------------------- module helpers --------------------------- *)
\* _find_module: the first name under which m is registered, by identity
FirstNamed(pairs, obj) ==
    LET hits == { j \in 1..Len(pairs) : pairs[j][2] = obj }
    IN  IF hits = {}
        THEN [ ok |-> FALSE, name |-> "" ]
        ELSE [ ok |-> TRUE, name |-> pairs[Min(hits)][1] ]
\* `m == p` decided by the modules' types instead of `m is p`
SameType(m, p) == PyModuleOf(m) = PyModuleOf(p)

\* `m is p` in _find_module
SameModule(m, p) == m = p

FirstModule(nm, m) ==
    LET hits == { j \in 1..Len(nm) : SameModule(m, nm[j][2]) }
    IN  IF hits = {}
        THEN [ ok |-> FALSE, name |-> "" ]
        ELSE [ ok |-> TRUE, name |-> nm[Min(hits)][1] ]
\* _find_module without line 17: an object that is not found gets the empty name
find_module_or_root(r, m) == [ ok |-> TRUE, name |-> FirstModule(named_modules(r), m).name ]

\* _find_module(root, m)
find_module(r, m) == FirstModule(named_modules(r), m)

\* the error _find_module raises
UnregisteredModule == "NameError: module is not installed as a submodule"
\* the error create_arg raises for a parameter that is not the root's
UnregisteredParameter == "NameError: parameter is not a member of this module"
\* an error raised by the traced code itself
ExecutionError == "RuntimeError: raised by forward"

\* Tracer.is_leaf_module
is_leaf_module(m) ==
    /\ Len(PyModuleOf(m)) >= Len("torch.nn")
    /\ SubSeq(PyModuleOf(m), 1, Len("torch.nn")) = "torch.nn"
    /\ ~IsSequential(m)

\* call_module with the test dropped: every module is traced through
always_traces_through(m) == TRUE
\* call_module with the branch never taken: every module is emitted as a node
never_traces_through(m) == FALSE

\* line 63 of Tracer.call_module: `if not self.is_leaf_module(m)`
traces_through(m) == ~is_leaf_module(m)

(* ------------------------------- graph -------------------------------- *)
\* Graph.create_node: append a node; its reference is its position
create_node(g, op, target, args, tr) ==
    Append(g, [ op |-> op, target |-> target, args |-> args, trace |-> tr ])

\* Graph.output
graph_output(g, arg, tr) == create_node(g, "output", "output", << arg >>, tr)

(* --------------------------- create_arg ------------------------------- *)
\* `a == p` on the tensors' contents instead of `a is p`
SameValue(a, p) == TensorValue(a) = TensorValue(p)

\* `a is p` in search_for_tensor
SameObject(a, p) == a = p

\* '.'.join(atoms)
RECURSIVE Join(_)
Join(atoms) ==
    IF atoms = << >> THEN ""
    ELSE IF Len(atoms) = 1 THEN atoms[1]
    ELSE atoms[1] \o "." \o Join(Tail(atoms))

\* search_for_tensor: the atoms of the first attribute that is the object a,
\* own __dict__ first, then each child's subtree; << >> stands for None
RECURSIVE search_for_tensor(_, _, _)
RECURSIVE SearchChildren(_, _, _, _)
RECURSIVE SearchNext(_, _, _, _, _)
OwnAttribute(items, a) ==
    LET hits == { j \in 1..Len(items) : SameObject(a, items[j][2]) }
    IN  IF hits # {} THEN << items[Min(hits)][1] >> ELSE << >>
\* search_for_tensor with its two loops in the other order: the children's
\* subtrees before the module's own __dict__
search_children_first(d, m, a) ==
    IF SearchChildren(d, Children(m), 1, a) # << >>
    THEN SearchChildren(d, Children(m), 1, a)
    ELSE OwnAttribute(DictOf(d, m), a)

search_for_tensor(d, m, a) ==
    IF OwnAttribute(DictOf(d, m), a) # << >>
    THEN OwnAttribute(DictOf(d, m), a)
    ELSE SearchChildren(d, Children(m), 1, a)
SearchChildren(d, cs, i, a) ==
    IF i > Len(cs)
    THEN << >>
    ELSE SearchNext(d, cs, i, a, search_for_tensor(d, cs[i][2], a))
SearchNext(d, cs, i, a, maybe_result) ==
    IF maybe_result # << >>
    THEN << cs[i][1] >> \o maybe_result
    ELSE SearchChildren(d, cs, i + 1, a)

\* the while loop of create_arg: the first f'__tensor_constant{i}', i = 0, 1, ...,
\* that the root has no attribute for
\* the loop leaving at its first test: the name of index i, taken or not
first_constant_name(d, root, i) == "__tensor_constant" \o ToString(i)

RECURSIVE FreshConstantName(_, _, _)
FreshConstantName(d, root, i) ==
    LET qualname == "__tensor_constant" \o ToString(i)
    IN  IF ~hasattr(d, root, qualname)
        THEN qualname
        ELSE FreshConstantName(d, root, i + 1)

\* the result of normalizing: the argument, the graph and dictionaries after it,
\* and the error raised ("" for none)
Normalized(arg, g, d, err) == [ arg |-> arg, graph |-> g, dict |-> d, err |-> err ]

\* self.create_node('get_param', qualname, (), {}) and the reference to it
get_param(g, d, tr, qualname) ==
    Normalized(NodeRef(Len(g) + 1), create_node(g, "get_param", qualname, << >>, tr), d, "")

\* lines 74-77: the parameter branch, given the lookup in root.named_parameters()
parameter_arg(g, d, tr, hit) ==
    IF hit.ok
    THEN get_param(g, d, tr, hit.name)
    ELSE Normalized(NoneArg, g, d, UnregisteredParameter)

\* lines 108-115: stow an unfound tensor under a fresh name on the root
stow_constant(g, d, r, tr, t, qualname) ==
    get_param(g, setattr(d, r, qualname, t), tr, qualname)

\* the tensor branch with the test of line 108 dropped: the tensor is stowed
\* whether the search found it or not
always_stow(g, d, r, tr, t, qualname) ==
    stow_constant(g, d, r, tr, t, FreshConstantName(d, r, 0))

\* lines 103-117: the tensor branch, given the joined qualname of the search
\* ("" when the search found nothing)
tensor_arg(g, d, r, tr, t, qualname) ==
    IF qualname = ""
    THEN stow_constant(g, d, r, tr, t, FreshConstantName(d, r, 0))
    ELSE get_param(g, d, tr, qualname)

\* create_arg with the isinstance tests in the other order: a Parameter is a Tensor,
\* so it takes the tensor branch
create_arg_tensor_first(g, d, r, tr, a) ==
    IF a.k \in { "param", "tensor" }
    THEN tensor_arg(g, d, r, tr, a.id, Join(search_for_tensor(d, r, a.id)))
    ELSE IF a.k = "proxy"
    THEN Normalized(NodeRef(a.n), g, d, "")
    ELSE Normalized(NoneArg, g, d, "")

\* Tracer.create_arg on one value
create_arg(g, d, r, tr, a) ==
    IF a.k = "param"
    THEN parameter_arg(g, d, tr, FirstNamed(named_parameters(r), a.id))
    ELSE IF a.k = "tensor"
    THEN tensor_arg(g, d, r, tr, a.id, Join(search_for_tensor(d, r, a.id)))
    ELSE IF a.k = "proxy"
    THEN Normalized(NodeRef(a.n), g, d, "")
    ELSE Normalized(NoneArg, g, d, "")

\* the values create_arg appends a get_param node for: Parameters and tensors
IsConstant(v) == v.k \in { "param", "tensor" }

\* how many of the values as[1..n] are constants, which take one node each
RECURSIVE ConstantsAmong(_, _)
ConstantsAmong(as, n) ==
    IF n = 0 THEN 0
    ELSE ConstantsAmong(as, n - 1) + (IF IsConstant(as[n]) THEN 1 ELSE 0)

\* <<root, tensor, target>> for the plain tensors among vals whose get_param node
\* was appended when normalizing vals took the graph from g0 to g1
Normalizations(r, g0, g1, vals) ==
    { << r, vals[a].id, g1[Len(g0) + ConstantsAmong(vals, a)].target >> :
        a \in { b \in 1..Len(vals) : /\ vals[b].k = "tensor"
                                     /\ Len(g0) + ConstantsAmong(vals, b) <= Len(g1) } }

\* create_arg on the tuple of call arguments: left to right, stopping at an error
RECURSIVE create_args(_, _, _, _, _, _)
RECURSIVE CreateArgsNext(_, _, _, _, _)
create_args(g, d, r, tr, vals, acc) ==
    IF vals = << >>
    THEN Normalized(acc, g, d, "")
    ELSE CreateArgsNext(create_arg(g, d, r, tr, Head(vals)), r, tr, Tail(vals), acc)
CreateArgsNext(n, r, tr, rest, acc) ==
    IF n.err # ""
    THEN Normalized(acc, n.graph, n.dict, n.err)
    ELSE create_args(n.graph, n.dict, r, tr, rest, Append(acc, n.arg))

\* the call_module node of _create_proxy, given the normalized arguments
ProxyFor(n, target, tr) ==
    IF n.err # ""
    THEN [ value |-> Unset, graph |-> n.graph, dict |-> n.dict, err |-> n.err ]
    ELSE [ value |-> Proxy(Len(n.graph) + 1),
           graph |-> create_node(n.graph, "call_module", target, n.arg, tr),
           dict |-> n.dict, err |-> "" ]

\* _create_proxy(tracer, 'call_module', target, args, kwargs)
create_proxy(g, d, r, tr, target, vals) ==
    ProxyFor(create_args(g, d, r, tr, vals, << >>), target, tr)

(* ------------------------- placeholders, arity ------------------------ *)
\* the value of the root object itself, args[0] of fn(*args)
ModuleVal(m) == [ k |-> "module", n |-> 0, id |-> m ]

\* co.co_flags & HAS_VARSTUFF
HasVarStuff(co) == co.co_varargs \/ co.co_varkeywords

\* the placeholders with total_args taken to be co_argcount alone
placeholder_targets_positional(co) ==
    LET total_args == co.co_argcount
        named == [ i \in 1..(total_args - 1) |-> co.co_varnames[i + 1] ]
        adapt == co.co_kwonlyargcount > 0 \/ HasVarStuff(co)
        star == IF adapt /\ co.co_varargs
                THEN << "*" \o co.co_varnames[total_args + 1] >>
                ELSE << >>
        starstar == IF adapt /\ co.co_varkeywords
                    THEN << "**" \o co.co_varnames[total_args + 1 + Len(star)] >>
                    ELSE << >>
    IN  named \o star \o starstar

\* the targets of the placeholders Tracer.trace creates, in creation order:
\* names_iter skips the receiver, then yields one name per placeholder
placeholder_targets(co) ==
    LET total_args == co.co_argcount + co.co_kwonlyargcount
        named == [ i \in 1..(total_args - 1) |-> co.co_varnames[i + 1] ]
        adapt == co.co_kwonlyargcount > 0 \/ HasVarStuff(co)
        star == IF adapt /\ co.co_varargs
                THEN << "*" \o co.co_varnames[total_args + 1] >>
                ELSE << >>
        starstar == IF adapt /\ co.co_varkeywords
                    THEN << "**" \o co.co_varnames[total_args + 1 + Len(star)] >>
                    ELSE << >>
    IN  named \o star \o starstar

\* _proxy_placeholder for each target: the placeholder nodes, in order
proxy_placeholders(g, targets, tr) ==
    g \o [ i \in 1..Len(targets) |->
             [ op |-> "placeholder", target |-> targets[i], args |-> << >>, trace |-> tr ] ]

\* _patch_function: the code object with nargs positional parameters and no
\* keyword-only or variadic ones
patch_function(co, nargs) ==
    [ co EXCEPT !.co_argcount = nargs, !.co_kwonlyargcount = 0,
                !.co_varargs = FALSE, !.co_varkeywords = FALSE ]

\* trace without lines 146-151: the target is invoked as declared
declared_code(co, nargs) == co

\* the code object trace invokes: adapted when the target declares keyword-only
\* or variadic parameters
traced_code(co, nargs) ==
    IF co.co_kwonlyargcount > 0 \/ HasVarStuff(co)
    THEN patch_function(co, nargs)
    ELSE co

\* Python's binding of fn(*args) to the locals of a code object without defaults:
\* <<name, value>> pairs, or a TypeError
TupleVal(n) == [ k |-> "tuple", n |-> n, id |-> "" ]
DictVal == [ k |-> "dict", n |-> 0, id |-> "" ]
PyBind(co, as) ==
    LET n == Len(as)
        va == co.co_argcount + co.co_kwonlyargcount + 1
    IN  IF n < co.co_argcount \/ (n > co.co_argcount /\ ~co.co_varargs)
           \/ co.co_kwonlyargcount > 0
        THEN [ ok |-> FALSE, locals |-> << >> ]
        ELSE [ ok |-> TRUE,
               locals |-> [ i \in 1..co.co_argcount |-> << co.co_varnames[i], as[i] >> ]
                          \o (IF co.co_varargs
                              THEN << << co.co_varnames[va], TupleVal(n - co.co_argcount) >> >>
                              ELSE << >>)
                          \o (IF co.co_varkeywords
                              THEN << << co.co_varnames[va + (IF co.co_varargs THEN 1 ELSE 0)],
                                         DictVal >> >>
                              ELSE << >>) ]
ArityError == "TypeError: forward() arguments do not match its signature"

(* ------------------------------- state -------------------------------- *)
VARIABLES
    hook,        \* torch.nn.Module.__call__, the process-wide call path
    orig_call,   \* trace's local orig_call
    phase,       \* where Tracer.trace is
    traceNo,     \* number of calls of Tracer.trace so far
    tracer,      \* identity of the Tracer object in use
    root,        \* self.root
    graph,       \* self.graph: the nodes in creation order
    code,        \* type(root).forward.__code__, as declared
    fn,          \* the code object of fn when it is invoked, adapted or not
    args,        \* the list args passed to fn
    locals,      \* the locals fn(*args) bound, as <<name, value>> pairs
    stack,       \* the Python call stack under fn(*args), innermost last
    retval,      \* the value being returned to the innermost frame
    exc,         \* the error propagating, "" for none
    dict,        \* __dict__ of every object that keeps tensors
    outcome,     \* what the caller of trace got: "none", "graph" or "error"
    result,      \* the graph of the GraphModule returned
    invs,        \* one record per sub-component invocation made by traced code
    hookBefore,  \* the hook as it was when the trace was called
    restores,    \* how many times this trace assigned the hook back
    failures,    \* how many traces have ended in an error so far
    dictBefore,  \* dict as it was when the trace was called
    seen         \* <<root, tensor, target>> of every plain tensor normalized so far

vars == << hook, orig_call, phase, traceNo, tracer, root, graph, code, fn, args, locals,
           stack, retval, exc, dict, outcome, result, invs, hookBefore, restores, failures,
           dictBefore, seen >>

\* nn.Module.__call__ as imported
OrigCall == "Module.__call__"
\* the closure module_call_wrapper of trace number t
WrapperOf(t) == "module_call_wrapper#" \o ToString(t)
IsWrapper(h) == h # OrigCall

FwdFrame(m, cur, inv) ==
    [ kind |-> "forward", mod |-> m, pc |-> 1, cur |-> cur,
      disable_intercept |-> FALSE, args |-> << >>, inv |-> inv ]
WrapFrame(m, as, inv) ==
    [ kind |-> "wrapper", mod |-> m, pc |-> 0, cur |-> Unset,
      disable_intercept |-> FALSE, args |-> as, inv |-> inv ]

Top == stack[Len(stack)]
Pop(stk) == SubSeq(stk, 1, Len(stk) - 1)
SetTop(stk, f) == [ stk EXCEPT ![Len(stk)] = f ]
Running == phase = "executing" /\ exc = "" /\ stack # << >>
CurOp == Forward(Top.mod)[Top.pc]

Init ==
    /\ hook = OrigCall
    /\ orig_call = OrigCall
    /\ phase = "idle"
    /\ traceNo = 0
    /\ tracer = 0
    /\ root = ""
    /\ graph = << >>
    /\ code = Code(0, 0, FALSE, FALSE)
    /\ fn = Code(0, 0, FALSE, FALSE)
    /\ args = << >>
    /\ locals = << >>
    /\ stack = << >>
    /\ retval = Unset
    /\ exc = ""
    /\ dict = [ m \in DictOwners |-> InitDict(m) ]
    /\ outcome = "none"
    /\ result = << >>
    /\ invs = << >>
    /\ hookBefore = OrigCall
    /\ restores = 0
    /\ failures = 0
    /\ dictBefore = [ m \in DictOwners |-> InitDict(m) ]
    /\ seen = {}

(* ------------------------------ Tracer.trace -------------------------- *)
\* trace without line 135: the tracer goes on with the graph it holds
keep_graph(old) == old

\* self.graph = Graph(): the graph a trace starts from, whatever the tracer held
new_graph(old) == << >>

\* lines 134-151: bind root and a new graph, create the placeholders and adapt fn.
\* fresh: the call is symbolic_trace's Tracer().trace(root); otherwise the same
\* Tracer object is asked to trace again.
BuildPlaceholders(r, co, fresh) ==
    /\ phase \in { "idle", "done" }
    /\ traceNo < MaxTraces
    /\ fresh \/ tracer # 0
    /\ LET t == traceNo + 1
           targets == placeholder_targets(co)
           g == proxy_placeholders(new_graph(IF fresh THEN << >> ELSE graph), targets, t)
           as == << ModuleVal(r) >> \o [ i \in 1..Len(targets) |-> Proxy(i + Len(g) - Len(targets)) ]
       IN  /\ traceNo' = t
           /\ tracer' = IF fresh THEN t ELSE tracer
           /\ root' = r
           /\ graph' = g
           /\ args' = as
           /\ code' = co
           /\ fn' = traced_code(co, Len(as))
    /\ phase' = "placeholders-built"
    /\ locals' = << >>
    /\ stack' = << >>
    /\ retval' = Unset
    /\ exc' = ""
    /\ outcome' = "none"
    /\ result' = << >>
    /\ invs' = << >>
    /\ hookBefore' = hook
    /\ restores' = 0
    /\ dictBefore' = dict
    /\ UNCHANGED << hook, orig_call, dict, failures, seen >>

\* lines 153 and 176: remember the current call path and install the wrapper
InstallInterceptor ==
    /\ phase = "placeholders-built"
    /\ orig_call' = hook
    /\ hook' = WrapperOf(traceNo)
    /\ phase' = "interceptor-installed"
    /\ UNCHANGED << traceNo, tracer, root, graph, code, fn, args, locals, stack, retval, exc,
                    dict, outcome, result, invs, hookBefore, restores, failures, dictBefore, seen >>

\* the value forward starts from: its first declared parameter after the receiver
FirstArgument(ls) == IF Len(ls) >= 2 THEN ls[2][2] ELSE NoneVal

Enter(b) ==
    /\ locals' = b.locals
    /\ stack' = IF b.ok THEN << FwdFrame(root, FirstArgument(b.locals), 0) >> ELSE << >>
    /\ exc' = IF b.ok THEN exc ELSE ArityError

\* fn(*args) evaluated above the try statement, before line 176
InvokeTargetBeforeInstall ==
    /\ phase = "placeholders-built"
    /\ Enter(PyBind(fn, args))
    /\ phase' = "executing"
    /\ UNCHANGED << hook, orig_call, traceNo, tracer, root, graph, code, fn, args, retval,
                    dict, outcome, result, invs, hookBefore, restores, failures, dictBefore, seen >>

\* line 177, fn(*args): bind the arguments and enter the root's forward
InvokeTarget ==
    /\ phase = "interceptor-installed"
    /\ Enter(PyBind(fn, args))
    /\ phase' = "executing"
    /\ UNCHANGED << hook, orig_call, traceNo, tracer, root, graph, code, fn, args, retval,
                    dict, outcome, result, invs, hookBefore, restores, failures, dictBefore, seen >>

(* --------------------------- the traced code -------------------------- *)
\* the record kept for one call made by a forward: how often the wrapper was
\* entered for it (passes), how often is_leaf_module was asked (queries), how
\* often the module's forward was run (runs), the call_module node it emitted
\* (node, 0 for none) and the length of the graph when the call was made (before)
NewInvocation(m, as) ==
    [ mod |-> m, args |-> as, queries |-> 0, runs |-> 0, passes |-> 0, node |-> 0,
      returned |-> FALSE, before |-> Len(graph) ]

\* forward evaluates m(cur, *extra): type(m).__call__ is the installed hook
CallSubmodule ==
    /\ Running /\ retval = Unset
    /\ Top.kind = "forward"
    /\ CurOp.op = "call"
    /\ IsWrapper(hook)
    /\ LET as == << Top.cur >> \o CurOp.extra
       IN  /\ invs' = Append(invs, NewInvocation(CurOp.m, as))
           /\ stack' = Append(stack, WrapFrame(CurOp.m, as, Len(invs) + 1))
    /\ UNCHANGED << hook, orig_call, phase, traceNo, tracer, root, graph, code, fn, args,
                    locals, retval, exc, dict, outcome, result, hookBefore, restores, failures,
                    dictBefore, seen >>

\* forward receives the value of the call it made
ForwardResume ==
    /\ Running /\ retval # Unset
    /\ Top.kind = "forward"
    /\ stack' = SetTop(stack, [ Top EXCEPT !.cur = retval, !.pc = @ + 1 ])
    /\ retval' = Unset
    /\ invs' = [ i \in 1..Len(invs) |->
                   IF CurOp.op = "call" /\ ~invs[i].returned
                      /\ \A j \in (i + 1)..Len(invs) : invs[j].returned
                   THEN [ invs[i] EXCEPT !.returned = TRUE ]
                   ELSE invs[i] ]
    /\ UNCHANGED << hook, orig_call, phase, traceNo, tracer, root, graph, code, fn, args,
                    locals, exc, dict, outcome, result, hookBefore, restores, failures, dictBefore, seen >>

\* forward raises
ForwardRaise ==
    /\ Running /\ retval = Unset
    /\ Top.kind = "forward"
    /\ CurOp.op = "raise"
    /\ exc' = ExecutionError
    /\ UNCHANGED << hook, orig_call, phase, traceNo, tracer, root, graph, code, fn, args,
                    locals, stack, retval, dict, outcome, result, invs, hookBefore,
                    restores, failures, dictBefore, seen >>

\* forward returns
ForwardReturn ==
    /\ Running /\ retval = Unset
    /\ Top.kind = "forward"
    /\ CurOp.op = "ret"
    /\ retval' = IF CurOp.extra = << >> THEN Top.cur ELSE CurOp.extra[1]
    /\ stack' = Pop(stack)
    /\ UNCHANGED << hook, orig_call, phase, traceNo, tracer, root, graph, code, fn, args,
                    locals, exc, dict, outcome, result, invs, hookBefore, restores, failures,
                    dictBefore, seen >>

(* ------------------------- module_call_wrapper ------------------------ *)
Max(S) == CHOOSE x \in S : \A y \in S : x >= y

\* the wrapper without its look at the call chain
never_dispatched(stk) == FALSE

\* lines 163-170: the nearest module_call_wrapper frame above this one in the call
\* chain holds the same object in mod and has set disable_intercept
already_dispatched(stk) ==
    LET enclosing == { j \in 1..(Len(stk) - 1) : stk[j].kind = "wrapper" }
    IN  /\ enclosing # {}
        /\ stk[Max(enclosing)].mod = stk[Len(stk)].mod
        /\ stk[Max(enclosing)].disable_intercept

InWrapper ==
    /\ Running /\ retval = Unset
    /\ Top.kind = "wrapper"

BumpInv(i, field) == [ invs EXCEPT ![i][field] = @ + 1 ]

\* line 156: _find_module raises for an object that is not under the root
WrapperUnregistered ==
    /\ InWrapper
    /\ ~find_module(root, Top.mod).ok
    /\ exc' = UnregisteredModule
    /\ invs' = BumpInv(Top.inv, "passes")
    /\ UNCHANGED << hook, orig_call, phase, traceNo, tracer, root, graph, code, fn, args,
                    locals, stack, retval, dict, outcome, result, hookBefore, restores, failures,
                    dictBefore, seen >>

\* line 168: the call is already dispatched, so take the original call path,
\* which runs mod.forward
WrapperBypass ==
    /\ InWrapper
    /\ find_module(root, Top.mod).ok
    /\ already_dispatched(stack)
    /\ stack' = Append(stack, FwdFrame(Top.mod, Top.args[1], Top.inv))
    /\ invs' = [ invs EXCEPT ![Top.inv].passes = @ + 1, ![Top.inv].runs = @ + 1 ]
    /\ UNCHANGED << hook, orig_call, phase, traceNo, tracer, root, graph, code, fn, args,
                    locals, retval, exc, dict, outcome, result, hookBefore, restores, failures,
                    dictBefore, seen >>

\* lines 172-173 and 65-66: mark the frame, dispatch to call_module, which emits a
\* call_module node for a leaf and returns a Proxy without running the module
EmitCallModule(f, r) ==
    /\ graph' = r.graph
    /\ dict' = r.dict
    /\ exc' = r.err
    /\ retval' = r.value
    /\ stack' = IF r.err # ""
                THEN SetTop(stack, [ f EXCEPT !.disable_intercept = TRUE ])
                ELSE Pop(stack)
    /\ invs' = [ invs EXCEPT ![f.inv].passes = @ + 1,
                             ![f.inv].queries = @ + 1,
                             ![f.inv].node = IF r.err # "" THEN 0 ELSE Len(r.graph) ]
    /\ seen' = seen \cup Normalizations(root, graph, r.graph, f.args)
CallModuleLeaf ==
    /\ InWrapper
    /\ find_module(root, Top.mod).ok
    /\ ~already_dispatched(stack)
    /\ ~traces_through(Top.mod)
    /\ EmitCallModule(Top, create_proxy(graph, dict, root, traceNo,
                                        find_module(root, Top.mod).name, Top.args))
    /\ UNCHANGED << hook, orig_call, phase, traceNo, tracer, root, code, fn, args, locals,
                    outcome, result, hookBefore, restores, failures, dictBefore >>

\* lines 172-173 and 63-64: mark the frame, dispatch to call_module, which calls
\* a non-leaf module again: m(*args) goes through the installed hook
CallModuleComposite ==
    /\ InWrapper
    /\ find_module(root, Top.mod).ok
    /\ ~already_dispatched(stack)
    /\ traces_through(Top.mod)
    /\ IsWrapper(hook)
    /\ stack' = Append(SetTop(stack, [ Top EXCEPT !.disable_intercept = TRUE ]),
                       WrapFrame(Top.mod, Top.args, Top.inv))
    /\ invs' = [ invs EXCEPT ![Top.inv].passes = @ + 1, ![Top.inv].queries = @ + 1 ]
    /\ UNCHANGED << hook, orig_call, phase, traceNo, tracer, root, graph, code, fn, args,
                    locals, retval, exc, dict, outcome, result, hookBefore, restores, failures,
                    dictBefore, seen >>

\* a module_call_wrapper frame returns what its callee returned
WrapperReturn ==
    /\ Running /\ retval # Unset
    /\ Top.kind = "wrapper"
    /\ stack' = Pop(stack)
    /\ UNCHANGED << hook, orig_call, phase, traceNo, tracer, root, graph, code, fn, args,
                    locals, retval, exc, dict, outcome, result, invs, hookBefore,
                    restores, failures, dictBefore, seen >>

\* an error leaves the innermost frame: nothing under fn(*args) catches it
Unwind ==
    /\ phase = "executing" /\ exc # "" /\ stack # << >>
    /\ stack' = Pop(stack)
    /\ UNCHANGED << hook, orig_call, phase, traceNo, tracer, root, graph, code, fn, args,
                    locals, retval, exc, dict, outcome, result, invs, hookBefore,
                    restores, failures, dictBefore, seen >>

(* ------------------------ output and teardown ------------------------- *)
\* line 177: self.graph.output(self.create_arg(<returned value>)); the argument is
\* normalized first, then the output node is appended
\* the output node appended before the returned value is normalized
capture_output_early(g, d, r, tr, v) ==
    create_arg(graph_output(g, NodeRef(Len(g) + 2), tr), d, r, tr, v)

OutputOf(n, tr) ==
    IF n.err # ""
    THEN n
    ELSE Normalized(n.arg, graph_output(n.graph, n.arg, tr), n.dict, "")
capture_output(g, d, r, tr, v) == OutputOf(create_arg(g, d, r, tr, v), tr)

Captured(n) ==
    /\ graph' = n.graph
    /\ dict' = n.dict
    /\ exc' = n.err
    /\ phase' = IF n.err # "" THEN "executing" ELSE "output-captured"
    /\ seen' = seen \cup Normalizations(root, graph, n.graph, << retval >>)
CaptureOutput ==
    /\ phase = "executing" /\ exc = "" /\ stack = << >> /\ retval # Unset
    /\ Captured(capture_output(graph, dict, root, traceNo, retval))
    /\ retval' = Unset
    /\ UNCHANGED << hook, orig_call, traceNo, tracer, root, code, fn, args, locals, stack,
                    outcome, result, invs, hookBefore, restores, failures, dictBefore >>

\* the assignment of line 179 as the last statement of the try body instead of a
\* finally clause: an error skips it
RemoveInterceptorWithoutFinally ==
    /\ \/ phase = "output-captured"
       \/ phase = "executing" /\ exc # "" /\ stack = << >>
    /\ hook' = IF exc = "" THEN orig_call ELSE hook
    /\ restores' = IF exc = "" THEN restores + 1 ELSE restores
    /\ phase' = "interceptor-removed"
    /\ UNCHANGED << orig_call, traceNo, tracer, root, graph, code, fn, args, locals, stack,
                    retval, exc, dict, outcome, result, invs, hookBefore, failures,
                    dictBefore, seen >>

\* lines 178-179, the finally clause: reached from the end of the try body and
\* from an error that left it
RemoveInterceptor ==
    /\ \/ phase = "output-captured"
       \/ phase = "executing" /\ exc # "" /\ stack = << >>
    /\ hook' = orig_call
    /\ restores' = restores + 1
    /\ phase' = "interceptor-removed"
    /\ UNCHANGED << orig_call, traceNo, tracer, root, graph, code, fn, args, locals, stack,
                    retval, exc, dict, outcome, result, invs, hookBefore, failures,
                    dictBefore, seen >>

\* line 180: return GraphModule(root, self.graph)
ReturnGraphModule ==
    /\ phase = "interceptor-removed" /\ exc = ""
    /\ outcome' = "graph"
    /\ result' = graph
    /\ phase' = "done"
    /\ UNCHANGED << hook, orig_call, traceNo, tracer, root, graph, code, fn, args, locals,
                    stack, retval, exc, dict, invs, hookBefore, restores, failures, dictBefore, seen >>

\* the error leaves trace and reaches its caller
SurfaceError ==
    /\ phase = "interceptor-removed" /\ exc # ""
    /\ outcome' = "error"
    /\ result' = << >>
    /\ failures' = failures + 1
    /\ phase' = "done"
    /\ UNCHANGED << hook, orig_call, traceNo, tracer, root, graph, code, fn, args, locals,
                    stack, retval, exc, dict, invs, hookBefore, restores, dictBefore, seen >>

Next ==
    \/ \E r \in Roots : \E co \in CodesOf(r) : \E fresh \in BOOLEAN :
          BuildPlaceholders(r, co, fresh)
    \/ InstallInterceptor
    \/ InvokeTarget
    \/ CallSubmodule
    \/ ForwardResume
    \/ ForwardRaise
    \/ ForwardReturn
    \/ WrapperUnregistered
    \/ WrapperBypass
    \/ CallModuleLeaf
    \/ CallModuleComposite
    \/ WrapperReturn
    \/ Unwind
    \/ CaptureOutput
    \/ RemoveInterceptor
    \/ ReturnGraphModule
    \/ SurfaceError

Spec == Init /\ [][Next]_vars

(* ============================ properties ============================== *)
\* Independent descriptions of the module tree, used to state the properties.

\* every <<dotted path, object>> reachable from m through registered children
RECURSIVE TreePaths(_, _)
TreePaths(m, prefix) ==
    { << prefix, m >> } \cup
    UNION { TreePaths(Children(m)[i][2], SubPrefix(prefix, Children(m)[i][1])) :
              i \in 1..Len(Children(m)) }

\* the dotted paths under which object m is registered below r
PathsOf(r, m) == { q[1] : q \in { pm \in TreePaths(r, "") : pm[2] = m } }

\* every <<dotted path, tensor>> held in a __dict__ of the tree of r
AttributePaths(d, r) ==
    UNION { { << SubPrefix(pm[1], DictOf(d, pm[2])[j][1]), DictOf(d, pm[2])[j][2] >> :
                j \in 1..Len(DictOf(d, pm[2])) } : pm \in TreePaths(r, "") }

\* every <<dotted path, parameter>> registered in the tree of r
ParameterPaths(r) ==
    UNION { { << SubPrefix(pm[1], Parameters(pm[2])[j][1]), Parameters(pm[2])[j][2] >> :
                j \in 1..Len(Parameters(pm[2])) } : pm \in TreePaths(r, "") }

\* graph argument arg stands for run-time value v
Denotes(g, d, r, arg, v) ==
    CASE v.k = "proxy"  -> arg = NodeRef(v.n)
      [] v.k = "tensor" -> /\ arg.k = "node" /\ arg.n \in 1..Len(g)
                           /\ g[arg.n].op = "get_param"
                           /\ << g[arg.n].target, v.id >> \in AttributePaths(d, r)
      [] v.k = "param"  -> /\ arg.k = "node" /\ arg.n \in 1..Len(g)
                           /\ g[arg.n].op = "get_param"
                           /\ << g[arg.n].target, v.id >> \in ParameterPaths(r)
      [] OTHER          -> arg = NoneArg

\* the positions of the nodes of kind op in g, and their targets in graph order
NodesOfKind(g, op) == { n \in 1..Len(g) : g[n].op = op }
IsCallModule(nd) == nd.op = "call_module"
CallTargets(g) ==
    LET calls == SelectSeq(g, IsCallModule)
    IN  [ j \in 1..Len(calls) |-> calls[j].target ]

Installed == phase \in { "interceptor-installed", "executing", "output-captured" }

(* ---------------------------------------------------------------------- *)
\* C1: the hook a trace installs is assigned back exactly once, to the value it had
\* when the trace was called, before trace returns or raises to its caller - after a
\* normal run, after an error in the traced code and after an error in normalizing
\* the returned value - so every trace starts from the original call path.
C1_HookRestoredOnce ==
    /\ restores <= 1
    /\ Installed => hook = WrapperOf(traceNo) /\ restores = 0
    /\ phase \in { "interceptor-removed", "done" } => hook = hookBefore /\ restores = 1
    /\ phase \in { "idle", "placeholders-built", "done" } => hook = OrigCall

\* a second trace has failed while normalizing its returned value, and the hook is back
C1_Witness ==
    /\ phase = "done" /\ traceNo = 2 /\ failures = 2
    /\ root = "RetBadParam" /\ exc = UnregisteredParameter
    /\ hook = OrigCall /\ restores = 1

(* ---------------------------------------------------------------------- *)
\* C2: each invocation of a registered leaf module made by the traced code appends
\* exactly one call_module node, whose target is a path of that object under the
\* root and whose arguments stand for the call's arguments; the caller receives
\* the Proxy of that node, and the module's forward is never run.
C2_LeafCallEmitsOneNode ==
    /\ \A i \in 1..Len(invs) :
         (is_leaf_module(invs[i].mod) /\ PathsOf(root, invs[i].mod) # {}) =>
            /\ invs[i].runs = 0
            /\ invs[i].returned => invs[i].node # 0
            /\ invs[i].node # 0 =>
                 /\ invs[i].node \in 1..Len(graph)
                 /\ graph[invs[i].node].op = "call_module"
                 /\ graph[invs[i].node].target \in PathsOf(root, invs[i].mod)
                 /\ Len(graph[invs[i].node].args) = Len(invs[i].args)
                 /\ \A a \in 1..Len(invs[i].args) :
                      Denotes(graph, dict, root, graph[invs[i].node].args[a],
                              invs[i].args[a])
                 /\ (~invs[i].returned /\ exc = "") => retval = Proxy(invs[i].node)
    /\ \A n \in NodesOfKind(graph, "call_module") :
         Cardinality({ i \in 1..Len(invs) : invs[i].node = n }) = 1

\* a leaf was called with a Proxy and two constant tensors and has returned
C2_Witness ==
    /\ root = "Const" /\ Len(invs) >= 1
    /\ invs[1].mod = "Linear_a" /\ invs[1].returned /\ invs[1].node = 4
    /\ Len(invs[1].args) = 3

(* ---------------------------------------------------------------------- *)
\* the leaf calls forward(m) reaches, in order, when every call is to a child
ChildName(m, c) ==
    Children(m)[CHOOSE j \in 1..Len(Children(m)) : Children(m)[j][2] = c][1]
RECURSIVE ReachedLeaves(_, _, _)
ReachedLeaves(ops, m, prefix) ==
    IF ops = << >>
    THEN << >>
    ELSE (IF Head(ops).op # "call"
          THEN << >>
          ELSE IF is_leaf_module(Head(ops).m)
          THEN << SubPrefix(prefix, ChildName(m, Head(ops).m)) >>
          ELSE ReachedLeaves(Forward(Head(ops).m), Head(ops).m,
                             SubPrefix(prefix, ChildName(m, Head(ops).m))))
         \o ReachedLeaves(Tail(ops), m, prefix)

EmittingInvocation(v) == v.node # 0

\* C3: tracing through a non-leaf module appends no node for it, at any depth: no
\* call_module node targets a non-leaf path, the call_module nodes are those of the
\* leaf invocations in the order the traced code made them, and a finished graph
\* lists the leaves in the order one run of forward reaches them.
C3_CompositesAreFlattened ==
    /\ \A n \in NodesOfKind(graph, "call_module") :
         \A pm \in TreePaths(root, "") :
            graph[n].target = pm[1] => is_leaf_module(pm[2])
    /\ \A i \in 1..Len(invs) : ~is_leaf_module(invs[i].mod) => invs[i].node = 0
    /\ LET emitted == SelectSeq(invs, EmittingInvocation)
       IN  /\ Len(emitted) = Cardinality(NodesOfKind(graph, "call_module"))
           /\ \A j \in 1..Len(emitted) :
                /\ graph[emitted[j].node].op = "call_module"
                /\ j > 1 => emitted[j - 1].node < emitted[j].node
    /\ outcome = "graph" => CallTargets(result) = ReachedLeaves(Forward(root), root, "")

\* a tree with a user module holding a torch.nn.Sequential has been traced
C3_Witness ==
    /\ phase = "done" /\ outcome = "graph" /\ root = "Nest"
    /\ CallTargets(result) = << "block.lin", "block.seq.0", "block.seq.1", "head" >>

(* ---------------------------------------------------------------------- *)
\* C4: a trace that ends without an error returns a graph whose last node is its
\* only output node, also when normalizing the returned value appended a node.
C4_OneOutputLast ==
    /\ (phase = "done" /\ exc = "") => outcome = "graph"
    /\ outcome = "graph" =>
         /\ result # << >>
         /\ NodesOfKind(result, "output") = { Len(result) }

\* forward returned a constant tensor: a get_param node precedes the output node
C4_Witness ==
    /\ outcome = "graph" /\ root = "RetConst"
    /\ Len(result) = 4
    /\ result[3].op = "get_param" /\ result[4].args = << NodeRef(3) >>

(* ---------------------------------------------------------------------- *)
\* the graph the pipeline root.forward(x) = stage_k(...stage_1(x)) must give
ExpectedPipeline(k, tr) ==
    << [ op |-> "placeholder", target |-> "x1", args |-> << >>, trace |-> tr ] >>
    \o [ i \in 1..k |-> [ op |-> "call_module", target |-> "stage" \o ToString(i),
                          args |-> << NodeRef(i) >>, trace |-> tr ] ]
    \o << [ op |-> "output", target |-> "output", args |-> << NodeRef(k + 1) >>,
            trace |-> tr ] >>

\* C5: node order is execution order: the trace of a root that feeds its input
\* through leaf children stage1..stagek succeeds with exactly the graph
\* [placeholder, call_module stage1(x), ..., call_module stagek(stage k-1), output],
\* each stage taking the node of the stage before it.
C5_PipelineGraph ==
    (phase = "done" /\ root \in PipeRoots) =>
        /\ outcome = "graph"
        /\ result = ExpectedPipeline(PipeLen(root), traceNo)

\* the longest pipeline has been traced
C5_Witness ==
    /\ phase = "done" /\ root = PipeRoot(MaxStages) /\ outcome = "graph"
    /\ Len(result) = MaxStages + 2
    /\ result[MaxStages + 1].args = << NodeRef(MaxStages) >>

(* ---------------------------------------------------------------------- *)
\* the placeholder targets a declaration with np positional and nk keyword-only
\* parameters after the receiver must give
ExpectedPlaceholders(np, nk, va, vk) ==
    [ i \in 1..np |-> "x" \o ToString(i) ]
    \o [ i \in 1..nk |-> "k" \o ToString(i) ]
    \o (IF va THEN << "*rest" >> ELSE << >>)
    \o (IF vk THEN << "**kw" >> ELSE << >>)

\* C6: a trace creates one placeholder per declared named parameter after the
\* receiver, positional then keyword-only, in declaration order, then '*name' for a
\* variable-positional and '**name' for a variable-keyword parameter, and no other
\* placeholder; the placeholders are the first nodes of the graph.
C6_PlaceholdersFollowSignature ==
    phase # "idle" =>
        \E np \in 0..MaxPos, nk \in 0..MaxKwOnly, va \in BOOLEAN, vk \in BOOLEAN :
            /\ code = Code(np, nk, va, vk)
            /\ NodesOfKind(graph, "placeholder")
                 = 1..Len(ExpectedPlaceholders(np, nk, va, vk))
            /\ \A n \in NodesOfKind(graph, "placeholder") :
                 /\ graph[n].target = ExpectedPlaceholders(np, nk, va, vk)[n]
                 /\ graph[n].args = << >>
            /\ Len(args) = 1 + Len(ExpectedPlaceholders(np, nk, va, vk))
            /\ \A n \in 2..Len(args) : args[n] = Proxy(n - 1)

\* (self, x1, x2, *, k1, *rest, **kw) has been traced
C6_Witness ==
    /\ phase = "done" /\ outcome = "graph"
    /\ code = Code(MaxPos, 1, TRUE, TRUE)
    /\ Len(result) = MaxPos + 4
    /\ result[MaxPos + 2].target = "*rest" /\ result[MaxPos + 3].target = "**kw"

(* ---------------------------------------------------------------------- *)
\* frame j of the stack is a wrapper that took the original call path
Bypassing(j) ==
    /\ j < Len(stack)
    /\ stack[j].kind = "wrapper"
    /\ stack[j + 1].kind = "forward"

\* C7: a call that reaches the wrapper while the nearest enclosing wrapper frame is
\* dispatching the same object takes the original call path and records nothing;
\* the wrapper is entered at most twice per invocation, no invocation has more than
\* one node, and a leaf is dispatched in a single pass that emits its one node.
C7_ReentryBypasses ==
    /\ \A i \in 1..Len(invs) : invs[i].passes <= 2
    /\ \A j \in 1..Len(stack) :
         Bypassing(j) =>
            /\ j >= 2
            /\ stack[j - 1].kind = "wrapper"
            /\ stack[j - 1].mod = stack[j].mod
            /\ stack[j - 1].disable_intercept
            /\ stack[j - 1].inv = stack[j].inv
            /\ ~stack[j].disable_intercept
            /\ invs[stack[j].inv].node = 0
            /\ invs[stack[j].inv].runs = 1
            /\ stack[j + 1].mod = stack[j].mod
    /\ \A j \in 3..Len(stack) :
         ~(stack[j].kind = "wrapper" /\ stack[j - 1].kind = "wrapper"
           /\ stack[j - 2].kind = "wrapper")
    /\ \A i \in 1..Len(invs) :
         (is_leaf_module(invs[i].mod) /\ invs[i].returned) =>
            /\ invs[i].passes = 1
            /\ invs[i].node \in NodesOfKind(graph, "call_module")
            /\ \A k \in 1..Len(invs) : invs[k].node = invs[i].node => k = i

\* two nested non-leaf modules are both on the original call path
C7_Witness ==
    /\ root = "Nest"
    /\ \E j \in 1..Len(stack) : Bypassing(j) /\ stack[j].mod = "Seq"
    /\ \E j \in 1..Len(stack) : Bypassing(j) /\ stack[j].mod = "Block"

(* ---------------------------------------------------------------------- *)
\* <<tensor object, target of the get_param node that stands for it>> over the
\* arguments of the invocations that emitted a node
ConstantTargets ==
    UNION { { << invs[i].args[a].id, graph[graph[invs[i].node].args[a].n].target >> :
                a \in { b \in 1..Len(invs[i].args) : invs[i].args[b].k = "tensor" } } :
            i \in { k \in 1..Len(invs) : invs[k].node # 0 } }

\* C8: constants are resolved by identity: within a trace, two distinct tensor
\* objects that compare equal never share a get_param target.
C8_IdentityNotEquality ==
    \A p, q \in ConstantTargets :
        (p[1] # q[1] /\ TensorValue(p[1]) = TensorValue(q[1])) => p[2] # q[2]

\* equal tensors: one an attribute of the root, two stowed under fresh names
C8_Witness ==
    /\ root = "Const"
    /\ { << "T1", "buf" >>, << "T2", "__tensor_constant0" >>,
         << "T5", "__tensor_constant2" >> } \subseteq ConstantTargets

(* ---------------------------------------------------------------------- *)
\* C9: an error raised under trace reaches the caller and no graph is returned;
\* a graph is returned only without an error; and the graph a tracer works on
\* holds nodes of the current trace only, so a trace after a failed one, on a new
\* or on the same tracer, starts from its own placeholders.
C9_FailedGraphNotReused ==
    /\ (phase = "done" /\ exc # "") => (outcome = "error" /\ result = << >>)
    /\ outcome = "graph" => exc = ""
    /\ outcome = "error" => exc # ""
    /\ \A n \in 1..Len(graph) : graph[n].trace = traceNo
    /\ \A n \in 1..Len(result) : result[n].trace = traceNo
    /\ phase = "placeholders-built" =>
         NodesOfKind(graph, "placeholder") = 1..Len(graph)

\* the tracer whose trace failed is tracing again
C9_Witness ==
    /\ phase = "placeholders-built" /\ traceNo = 2 /\ failures = 1 /\ tracer = 1
    /\ Len(graph) = 1

(* ---------------------------------------------------------------------- *)
\* C10: after a trace that failed, the root carries no attribute the trace
\* attached: every __dict__ is as it was when the trace was called.
C10_FailedTraceLeavesRootUnchanged ==
    (phase = "done" /\ outcome = "error") => dict = dictBefore

(* ---------------------------------------------------------------------- *)
\* invocation i is of an object no path of registered children leads to
Unregistered(i) == PathsOf(root, invs[i].mod) = {}

\* C11: an invocation of an object that is not registered under the root, leaf or
\* not, fails in the wrapper's first statement with the unregistered-module error:
\* the classifier is not asked, the module is not run, the graph is as long as it
\* was when the call was made, nothing is returned for it, the trace ends in that
\* error, and the caller sees the error only with the original call path back.
C11_UnregisteredModuleFails ==
    /\ \A i \in 1..Len(invs) :
         (Unregistered(i) /\ invs[i].passes >= 1) =>
            /\ exc = UnregisteredModule
            /\ i = Len(invs)
            /\ invs[i].passes = 1 /\ invs[i].queries = 0 /\ invs[i].runs = 0
            /\ invs[i].node = 0 /\ ~invs[i].returned
            /\ Len(graph) = invs[i].before
            /\ phase \in { "executing", "interceptor-removed", "done" }
            /\ phase = "done" => outcome = "error"
    /\ \A n \in NodesOfKind(graph, "call_module") :
         \E pm \in TreePaths(root, "") : graph[n].target = pm[1]
    /\ outcome = "error" => hook = OrigCall /\ restores = 1

\* a call of an unregistered non-leaf module has failed a trace after a call of an
\* unregistered leaf failed the trace before it
C11_Witness ==
    /\ phase = "done" /\ outcome = "error" /\ exc = UnregisteredModule
    /\ root = "UnregComp" /\ failures = 2
    /\ Len(invs) = 1 /\ invs[1].mod = "Block_stray" /\ invs[1].passes = 1
    /\ ~is_leaf_module(invs[1].mod)
    /\ hook = OrigCall

(* ---------------------------------------------------------------------- *)
\* the names of the parameters registered in the tree of r, and of the tensors
\* held as attributes in it
ParameterNames(r) == { q[1] : q \in ParameterPaths(r) }
AttributeNames(d, r) == { q[1] : q \in AttributePaths(d, r) }
RegisteredParameter(r, v) == v.k = "param" /\ \E q \in ParameterPaths(r) : q[2] = v.id
StrayParameter(r, v) == v.k = "param" /\ \A q \in ParameterPaths(r) : q[2] # v.id

\* the value forward(root) returns when it returns a literal
ReturnedLiteral(r) ==
    LET last == Forward(r)[Len(Forward(r))]
    IN  IF last.op = "ret" /\ last.extra # << >> THEN last.extra[1] ELSE Unset

\* C12: a Parameter that is a parameter of the root's tree is normalized to one new
\* get_param node whose target is its qualified name; a Parameter that is not fails
\* with the unregistered-parameter error without taking the tensor branch: no
\* __dict__ ever holds a Parameter, every get_param node targets a registered
\* parameter or an attribute that holds a plain tensor, and the failed
\* normalization leaves the graph without a node for the Parameter.
C12_ParameterByNameOrError ==
    /\ \A m \in DOMAIN dict : \A j \in 1..Len(dict[m]) :
         \A i \in 1..Len(invs) : \A a \in 1..Len(invs[i].args) :
            invs[i].args[a].k = "param" => dict[m][j][2] # invs[i].args[a].id
    /\ \A m \in DOMAIN dict : \A j \in 1..Len(dict[m]) :
         ReturnedLiteral(root).k = "param" => dict[m][j][2] # ReturnedLiteral(root).id
    /\ \A n \in NodesOfKind(graph, "get_param") :
         graph[n].target \in ParameterNames(root) \cup AttributeNames(dict, root)
    /\ \A i \in 1..Len(invs) :
         invs[i].node # 0 =>
            \A a \in 1..Len(invs[i].args) :
               invs[i].args[a].k = "param" =>
                  /\ RegisteredParameter(root, invs[i].args[a])
                  /\ graph[invs[i].node].args[a]
                       = NodeRef(invs[i].before + ConstantsAmong(invs[i].args, a))
                  /\ graph[invs[i].before + ConstantsAmong(invs[i].args, a)].op = "get_param"
                  /\ << graph[invs[i].before + ConstantsAmong(invs[i].args, a)].target,
                        invs[i].args[a].id >> \in ParameterPaths(root)
    /\ \A i \in 1..Len(invs) :
         (is_leaf_module(invs[i].mod) /\ ~Unregistered(i) /\ invs[i].passes = 1) =>
            \A a \in 1..Len(invs[i].args) :
               (/\ StrayParameter(root, invs[i].args[a])
                /\ \A b \in 1..(a - 1) : ~StrayParameter(root, invs[i].args[b])) =>
                  /\ exc = UnregisteredParameter
                  /\ invs[i].node = 0 /\ ~invs[i].returned
                  /\ Len(graph) = invs[i].before + ConstantsAmong(invs[i].args, a - 1)
    /\ (phase = "output-captured" /\ RegisteredParameter(root, ReturnedLiteral(root))) =>
         /\ graph[Len(graph)].args = << NodeRef(Len(graph) - 1) >>
         /\ graph[Len(graph) - 1].op = "get_param"
         /\ << graph[Len(graph) - 1].target, ReturnedLiteral(root).id >>
               \in ParameterPaths(root)
    /\ (phase = "done" /\ StrayParameter(root, ReturnedLiteral(root))
        /\ \A i \in 1..Len(invs) : invs[i].returned) =>
         /\ exc = UnregisteredParameter /\ outcome = "error"
         /\ NodesOfKind(graph, "output") = {}
         /\ graph[Len(graph)].op # "get_param"

\* a root's own parameter and a child's have been normalized in a trace that follows
\* one a stray Parameter failed after a tensor before it had been stowed
C12_Witness ==
    /\ phase = "done" /\ outcome = "graph" /\ root = "Param" /\ failures = 1
    /\ dict["BadParam"] = << << "__tensor_constant0", "T2" >> >>
    /\ graph[2].op = "get_param" /\ graph[2].target = "w"
    /\ graph[3].op = "get_param" /\ graph[3].target = "lin.weight"
    /\ graph[4].args = << NodeRef(1), NodeRef(2), NodeRef(3) >>

(* ---------------------------------------------------------------------- *)
\* the place of a phase in the order of a trace
PhaseRank(p) ==
    CASE p = "idle"                  -> 0
      [] p = "placeholders-built"    -> 1
      [] p = "interceptor-installed" -> 2
      [] p = "executing"             -> 3
      [] p = "output-captured"       -> 4
      [] p = "interceptor-removed"   -> 5
      [] OTHER                       -> 6

\* one change of phase: to the next phase of the same trace, from executing with
\* an error straight to interceptor-removed, or from the end of a trace (or from
\* idle) to the placeholders of a new one
PhaseStep ==
    phase' # phase =>
        \/ /\ traceNo' = traceNo
           /\ PhaseRank(phase') = PhaseRank(phase) + 1
           /\ phase \in { "placeholders-built", "interceptor-installed", "output-captured" }
                => exc = "" /\ exc' = ""
           /\ phase = "executing" => exc = "" /\ exc' = "" /\ stack = << >>
        \/ /\ traceNo' = traceNo
           /\ phase = "executing" /\ phase' = "interceptor-removed"
           /\ exc # "" /\ exc' = exc /\ stack = << >>
        \/ /\ traceNo' = traceNo + 1
           /\ phase \in { "idle", "done" } /\ phase' = "placeholders-built"

\* what holds in each phase
PhaseInv ==
    /\ IsWrapper(hook) <=> Installed
    /\ phase # "idle" =>
         /\ NodesOfKind(graph, "placeholder") = 1..(Len(args) - 1)
         /\ phase = "placeholders-built" => Len(graph) = Len(args) - 1
    /\ (stack # << >> \/ invs # << >> \/ locals # << >>) => PhaseRank(phase) >= 3
    /\ stack # << >> => phase = "executing" /\ IsWrapper(hook)
    /\ NodesOfKind(graph, "output") # {} => PhaseRank(phase) >= 4 /\ exc = ""
    /\ phase = "output-captured" =>
         /\ NodesOfKind(graph, "output") = { Len(graph) }
         /\ IsWrapper(hook)
    /\ outcome # "none" <=> phase = "done"
    /\ outcome = "graph" => ~IsWrapper(hook) /\ result = graph
    /\ exc # "" => PhaseRank(phase) \in { 3, 5, 6 }

\* C13: within a trace the phases placeholders-built, interceptor-installed,
\* executing, output-captured, interceptor-removed follow one another in that order
\* and none comes back; the placeholders exist before the hook is installed and none
\* is added later, forward runs only under the installed hook, the output node is
\* appended under the installed hook, the graph is returned only after the hook is
\* removed, and an error in executing leads straight to interceptor-removed.
C13_PhasesInOrder == []PhaseInv /\ [][PhaseStep]_vars

\* a trace has gone through every phase after one that an error cut short
C13_Witness ==
    /\ phase = "done" /\ outcome = "graph" /\ traceNo = 2 /\ failures = 1
    /\ NodesOfKind(graph, "output") = { Len(graph) } /\ invs # << >>

(* ---------------------------------------------------------------------- *)
\* a placeholder target without its '*' or '**' mark
RECURSIVE Unstarred(_)
Unstarred(t) ==
    IF Len(t) > 0 /\ SubSeq(t, 1, 1) = "*" THEN Unstarred(SubSeq(t, 2, Len(t))) ELSE t

\* the declaration has a keyword-only, a variable-positional or a variable-keyword
\* parameter
DeclaresVarStuff(co) == co.co_kwonlyargcount > 0 \/ co.co_varargs \/ co.co_varkeywords

\* fn(*args) has been evaluated
Invoked == PhaseRank(phase) >= 3

\* C14: for a declaration with a keyword-only, '*' or '**' parameter trace invokes a
\* copy of the code whose argument count is the number of arguments passed (the
\* receiver and one per placeholder), with no keyword-only parameters and both
\* variadic flags cleared and the same names; every other declaration is invoked as
\* it is.  Either way the call binds: the receiver to the first name and the
\* placeholder of node n to the name it was created for, '*rest' to rest and '**kw'
\* to kw, and nothing is collected into a tuple or a dict.
C14_AdaptedArityBindsByName ==
    /\ phase # "idle" =>
         /\ DeclaresVarStuff(code) =>
              /\ fn.co_argcount = Len(args)
              /\ fn.co_kwonlyargcount = 0
              /\ ~fn.co_varargs /\ ~fn.co_varkeywords
              /\ fn.co_varnames = code.co_varnames
         /\ ~DeclaresVarStuff(code) => fn = code
    /\ Invoked =>
         /\ exc # ArityError
         /\ Len(locals) = Len(args)
         /\ locals[1] = << "self", ModuleVal(root) >>
         /\ \A n \in 1..(Len(args) - 1) :
              /\ graph[n].op = "placeholder"
              /\ locals[n + 1] = << Unstarred(graph[n].target), Proxy(n) >>
         /\ \A j \in 1..Len(locals) : locals[j][2].k \notin { "tuple", "dict" }

\* forward(self, x1, .., *rest, k1, **kw) is running with rest and kw bound to the
\* placeholders '*rest' and '**kw'
C14_Witness ==
    /\ Invoked /\ code = Code(MaxPos, 1, TRUE, TRUE)
    /\ fn # code /\ fn.co_argcount = MaxPos + 4
    /\ locals[MaxPos + 3] = << "rest", Proxy(MaxPos + 2) >>
    /\ locals[MaxPos + 4] = << "kw", Proxy(MaxPos + 3) >>
    /\ graph[MaxPos + 2].target = "*rest" /\ graph[MaxPos + 3].target = "**kw"

(* ---------------------------------------------------------------------- *)
\* C15: for every call the traced code makes to a module registered under the
\* root, leaf or not, is_leaf_module is asked exactly once, in the first pass
\* through the wrapper; the second pass a non-leaf module causes asks nothing.
C15_ClassifierAskedOnce ==
    \A i \in 1..Len(invs) :
        ~Unregistered(i) =>
            /\ invs[i].queries <= 1
            /\ invs[i].queries = (IF invs[i].passes >= 1 THEN 1 ELSE 0)
            /\ invs[i].returned => invs[i].queries = 1
            /\ invs[i].passes = 2 => ~is_leaf_module(invs[i].mod) /\ invs[i].runs = 1

\* a non-leaf module and the non-leaf module called inside it have gone through
\* the wrapper twice and returned, and so has a leaf after one pass
C15_Witness ==
    /\ root = "Nest" /\ Len(invs) = 6
    /\ invs[1].mod = "Block" /\ invs[1].passes = 2 /\ invs[1].queries = 1
    /\ invs[1].returned
    /\ invs[3].mod = "Seq" /\ invs[3].passes = 2 /\ invs[3].queries = 1
    /\ invs[6].mod = "Linear_a" /\ invs[6].passes = 1 /\ invs[6].queries = 1
    /\ invs[6].returned

(* ---------------------------------------------------------------------- *)
\* every node reference among the arguments of the nodes of g is to a node of g
\* that was appended before the node holding it, by the same trace
RefersBackwards(g) ==
    \A n \in 1..Len(g) : \A a \in 1..Len(g[n].args) :
        g[n].args[a].k = "node" =>
            /\ g[n].args[a].n \in 1..(n - 1)
            /\ g[g[n].args[a].n].trace = g[n].trace
            /\ g[g[n].args[a].n].op # "output"

\* C16: in every state the node references in the arguments of every node, the
\* output node included, are to nodes appended to the same graph strictly earlier,
\* so the references have no cycle and none points forward; the same holds of a
\* returned graph.
C16_ArgumentsReferBackwards == RefersBackwards(graph) /\ RefersBackwards(result)

\* a returned graph in which a leaf call takes the node of the call before it and
\* two get_param nodes, and the output node takes the last call
C16_Witness ==
    /\ outcome = "graph" /\ root = "Const"
    /\ \E n \in NodesOfKind(result, "call_module") :
         /\ Len(result[n].args) = 3
         /\ result[n].args[1].k = "node" /\ result[result[n].args[1].n].op = "call_module"
         /\ result[n].args[2] = NodeRef(n - 2) /\ result[n].args[3] = NodeRef(n - 1)
         /\ result[n - 1].op = "get_param"
         /\ result[Len(result)].args = << NodeRef(n) >>

(* ---------------------------------------------------------------------- *)
\* every <<dotted name, tensor>> attribute of the tree of m, laid out in depth-first
\* order: the entries of m.__dict__ in insertion order, then the whole subtree of
\* each child in the order the children were registered
RECURSIVE AttributesInOrder(_, _, _)
RECURSIVE SubtreesInOrder(_, _, _, _)
AttributesInOrder(d, m, prefix) ==
    [ j \in 1..Len(DictOf(d, m)) |->
        << SubPrefix(prefix, DictOf(d, m)[j][1]), DictOf(d, m)[j][2] >> ]
    \o SubtreesInOrder(d, Children(m), 1, prefix)
SubtreesInOrder(d, cs, i, prefix) ==
    IF i > Len(cs)
    THEN << >>
    ELSE AttributesInOrder(d, cs[i][2], SubPrefix(prefix, cs[i][1]))
         \o SubtreesInOrder(d, cs, i + 1, prefix)

\* the name of the first attribute in that order that is the object t
FirstHolder(layout, t) ==
    layout[Min({ j \in 1..Len(layout) : layout[j][2] = t })][1]

\* C17: the get_param node that stands for a plain tensor targets the first
\* attribute that is that object in depth-first order - the root's own __dict__
\* before any child, each child's whole subtree in registration order, a module's
\* own entries before its children - named by the child names on the way and the
\* attribute name, joined by dots.
C17_FirstMatchDepthFirst ==
    \A p \in ConstantTargets :
        /\ \E j \in 1..Len(AttributesInOrder(dict, root, "")) :
              AttributesInOrder(dict, root, "")[j][2] = p[1]
        /\ p[2] = FirstHolder(AttributesInOrder(dict, root, ""), p[1])

\* tensors held twice by the root, by the root and a child, by a child and its
\* own child, and by a grandchild of the first child and the second child
C17_Witness ==
    /\ root = "Deep" /\ outcome = "graph"
    /\ ConstantTargets = { << "T6", "r" >>, << "T7", "a.own" >>,
                           << "T8", "a.inner.deep" >>, << "T9", "b.late" >> }

(* ---------------------------------------------------------------------- *)
\* the attribute names of m when only the first k entries of its __dict__ exist:
\* those entries, its parameters and its children
NamesTaken(d, m, k) ==
    { DictOf(d, m)[j][1] : j \in 1..k }
    \cup { Parameters(m)[j][1] : j \in 1..Len(Parameters(m)) }
    \cup { Children(m)[j][1] : j \in 1..Len(Children(m)) }

ConstantName(i) == "__tensor_constant" \o ToString(i)

\* the generated name of smallest index that is not among taken
SmallestFree(taken) ==
    ConstantName(Min({ i \in 0..Cardinality(taken) : ConstantName(i) \notin taken }))

\* the tensors held as attributes below m, m's own left out
HeldBelow(d, m) ==
    { q[2] : q \in UNION { AttributePaths(d, Children(m)[j][2]) :
                             j \in 1..Len(Children(m)) } }

\* C18: every attribute a trace attached to a module is the next entry of a root's
\* __dict__, holds a tensor that no attribute of the tree was before, and is named
\* '__tensor_constant{i}' with the smallest i >= 0 for which the root had no
\* attribute, parameter or child of that name at that moment; the attributes that
\* were there keep their names and objects, no name is bound twice, modules other
\* than the traced roots are left alone, and the get_param node of such a tensor
\* targets the generated name - over all constants and traces.
C18_FreshNameNeverOverwrites ==
    /\ \A m \in DOMAIN dict :
         /\ Len(dict[m]) >= Len(InitDict(m))
         /\ SubSeq(dict[m], 1, Len(InitDict(m))) = InitDict(m)
         /\ m \notin Roots => dict[m] = InitDict(m)
         /\ \A j, k \in 1..Len(dict[m]) : dict[m][j][1] = dict[m][k][1] => j = k
         /\ \A k \in (Len(InitDict(m)) + 1)..Len(dict[m]) :
              /\ dict[m][k][1] = SmallestFree(NamesTaken(dict, m, k - 1))
              /\ dict[m][k][1] \notin NamesTaken(dict, m, k - 1)
              /\ \A j \in 1..(k - 1) : dict[m][j][2] # dict[m][k][2]
              /\ dict[m][k][2] \notin HeldBelow(dict, m)
    /\ \A p \in ConstantTargets :
         (\A q \in AttributePaths(dictBefore, root) : q[2] # p[1]) =>
            \E k \in (Len(dictBefore[root]) + 1)..Len(dict[root]) :
               dict[root][k] = << p[2], p[1] >>

\* a root with an attribute __tensor_constant1, a child __tensor_constant2 and a
\* parameter __tensor_constant3 has got its unfound tensors under the indices 0, 4
\* and 5, and the tensor it held was found where it was
C18_Witness ==
    /\ root = "Taken" /\ outcome = "graph"
    /\ dict["Taken"] = << << "__tensor_constant1", "T10" >>, << "__tensor_constant0", "T11" >>,
                          << "__tensor_constant4", "T12" >>, << "__tensor_constant5", "T13" >> >>
    /\ ConstantTargets = { << "T10", "__tensor_constant1" >>, << "T11", "__tensor_constant0" >>,
                           << "T12", "__tensor_constant4" >>, << "T13", "__tensor_constant5" >> }

(* ---------------------------------------------------------------------- *)
\* the tensors r's tree held as attributes before any trace
HeldAtFirst(r) == { q[2] : q \in AttributePaths([ m \in DictOwners |-> InitDict(m) ], r) }

\* the tensors normalized under root r so far that its tree did not hold
UnfoundSeen(r) == { p[2] : p \in { q \in seen : q[1] = r /\ q[2] \notin HeldAtFirst(r) } }

\* C19: over all normalizations of one tensor object under one root, within a
\* trace and over the traces so far, the get_param target is the same; a root
\* holds at most one attached attribute per object, and exactly as many attached
\* attributes as distinct tensors that its tree did not hold have been normalized
\* under it.
C19_ConstantCaptureIdempotent ==
    /\ \A p, q \in seen : (p[1] = q[1] /\ p[2] = q[2]) => p[3] = q[3]
    /\ \A p \in ConstantTargets : << root, p[1], p[2] >> \in seen
    /\ \A r \in Roots :
         /\ \A j, k \in (Len(InitDict(r)) + 1)..Len(dict[r]) :
              dict[r][j][2] = dict[r][k][2] => j = k
         /\ Len(dict[r]) - Len(InitDict(r)) = Cardinality(UnfoundSeen(r))

\* a root whose first trace attached three tensors, one of them met twice, has been
\* traced again: the targets are the same and nothing more is attached
C19_Witness ==
    /\ phase = "done" /\ traceNo = 2 /\ root = "Const" /\ outcome = "graph"
    /\ Len(dictBefore["Const"]) = 4 /\ dict = dictBefore
    /\ ConstantTargets = { << "T1", "buf" >>, << "T2", "__tensor_constant0" >>,
                           << "T3", "sub.t" >>, << "T4", "__tensor_constant1" >>,
                           << "T5", "__tensor_constant2" >> }
    /\ { q \in seen : q[1] = "Const" } = { << "Const", p[1], p[2] >> : p \in ConstantTargets }

(* ---------------------------------------------------------------------- *)
\* invocation i is of a non-leaf module registered under the root
CompositeCall(i) == ~is_leaf_module(invs[i].mod) /\ ~Unregistered(i)

\* C20: for every call the traced code makes to a registered non-leaf module the
\* module's forward runs exactly once: the first pass through the wrapper sets
\* disable_intercept and asks call_module, which calls the module again; that
\* second pass, and no other, takes the original call path and runs forward.  A
\* call that returned has run forward once in two passes, and forward never runs
\* in the first pass or a second time.
C20_CompositeRunsOnce ==
    /\ \A i \in 1..Len(invs) :
         CompositeCall(i) =>
            /\ invs[i].runs <= 1 /\ invs[i].passes <= 2
            /\ invs[i].runs = (IF invs[i].passes = 2 THEN 1 ELSE 0)
            /\ invs[i].returned => invs[i].runs = 1
            /\ invs[i].node = 0
    /\ \A j \in 2..Len(stack) :
         stack[j].kind = "forward" =>
            /\ j >= 3
            /\ ~is_leaf_module(stack[j].mod)
            /\ stack[j - 1].kind = "wrapper" /\ ~stack[j - 1].disable_intercept
            /\ stack[j - 2].kind = "wrapper" /\ stack[j - 2].disable_intercept
            /\ stack[j - 1].mod = stack[j].mod /\ stack[j - 2].mod = stack[j].mod
            /\ stack[j - 1].inv = stack[j].inv /\ stack[j - 2].inv = stack[j].inv
            /\ invs[stack[j].inv].runs = 1
    /\ \A j \in 1..Len(stack) :
         (stack[j].kind = "wrapper" /\ stack[j].disable_intercept
          /\ ~is_leaf_module(stack[j].mod)) =>
            /\ invs[stack[j].inv].passes >= 1
            /\ (j = Len(stack) /\ exc = "") => retval # Unset /\ invs[stack[j].inv].runs = 1
            /\ \A k \in 1..Len(stack) :
                 (k # j /\ stack[k].kind = "wrapper" /\ stack[k].inv = stack[j].inv) =>
                    k = j + 1 /\ ~stack[k].disable_intercept

\* the forward of a non-leaf module and, inside it, the forward of a
\* torch.nn.Sequential have each run once and returned in a finished trace, and
\* the trace before it ended in the error a non-leaf module's forward raised
C20_Witness ==
    /\ phase = "done" /\ outcome = "graph" /\ root = "Nest" /\ failures = 1
    /\ Len(invs) = 6
    /\ \A i \in { 1, 3 } :
         /\ CompositeCall(i) /\ invs[i].returned
         /\ invs[i].runs = 1 /\ invs[i].passes = 2
    /\ \A i \in { 2, 4, 5, 6 } : invs[i].runs = 0 /\ invs[i].passes = 1

=============================================================================
